---- MODULE Spec2Model ----
(***************************************************************************)
(* The generic SR-IOV vendor plugin (package generic).  The repository     *)
(* holds two revisions of the plugin:                                      *)
(*   - src/pkg/plugins/generic/generic_plugin.go : tri-state driver flags  *)
(*     (unloaded/loading/loaded), SetAllDesiredKernelParams with a give-up *)
(*     threshold, needRebootNode returning a bare bool;                    *)
(*   - src/unnamed/part_000 : DriverStateMap of three drivers with a       *)
(*     DriverLoaded flag, syncDesiredKernelParams returning (bool, error), *)
(*     needRebootNode returning (bool, error).                             *)
(* The variable impl fixes, at construction, which revision is running.    *)
(* Definitions that exist in both files with different bodies carry the    *)
(* suffix _generic_plugin or _part_000.                                    *)
(***************************************************************************)
EXTENDS Integers, Sequences, FiniteSets, TLC

VARIABLES
    impl,        \* "generic_plugin" | "part_000": the revision that is running
    cmdline,     \* the parameters present on the live kernel command line
    p,           \* the GenericPlugin object (the fields of both revisions)
    last,        \* the latest call: the object before it, its external calls, its results
    sameSinceOk, \* history: the latest Apply returned nil and no OnNodeStateChange
                 \* since then gave other Spec.Interfaces
    sameBefore   \* history: sameSinceOk when the latest call began

vars == <<impl, cmdline, p, last, sameSinceOk, sameBefore>>

----------------------------------------------------------------------------
(* Bounds *)

\* OnNodeStateChange is not called once a counter has reached this value
MaxAttempts == 2

\* the same, for the specification that reaches the give-up threshold
MaxGiveUpAttempts == 6

----------------------------------------------------------------------------
(* Program constants *)

unloaded == 0
loading == 1
loaded == 2

Vfio == 0
VirtioVdpa == 1
VhostVdpa == 2

\* SetAllDesiredKernelParams: "attempts > 4" gives up
GiveUpThreshold == 4

\* isCommandNotFound: exit status of "command not found"
ExitCommandNotFound == 127

vfioPciDriver == "vfio_pci"
virtioVdpaDriver == "virtio_vdpa"
vhostVdpaDriver == "vhost_vdpa"

DeviceTypeVfioPci == "vfio-pci"
DeviceTypeNetDevice == "netdevice"
VdpaTypeVirtio == "virtio"
VdpaTypeVhost == "vhost"

KernelParamIntelIommu == "intel_iommu=on"
KernelParamIommuPt == "iommu=pt"
KernelParamPciRealloc == "pci=realloc"

Params == {KernelParamIntelIommu, KernelParamIommuPt, KernelParamPciRealloc}

DriverIds == {Vfio, VirtioVdpa, VhostVdpa}

\* NewGenericPlugin (part_000): the catalog's constant fields
DriverCatalog ==
    [d \in DriverIds |->
        IF d = Vfio
        THEN [DriverName |-> vfioPciDriver, DeviceType |-> DeviceTypeVfioPci,
              VdpaType |-> "", NeedDriverFunc |-> "needDriverCheckDeviceType"]
        ELSE IF d = VirtioVdpa
        THEN [DriverName |-> virtioVdpaDriver, DeviceType |-> DeviceTypeNetDevice,
              VdpaType |-> VdpaTypeVirtio, NeedDriverFunc |-> "needDriverCheckVdpaType"]
        ELSE [DriverName |-> vhostVdpaDriver, DeviceType |-> DeviceTypeNetDevice,
              VdpaType |-> VdpaTypeVhost, NeedDriverFunc |-> "needDriverCheckVdpaType"]]

----------------------------------------------------------------------------
(* Values *)

Nil == [Spec |-> [Interfaces |-> <<>>], Status |-> [Interfaces |-> <<>>], isNil |-> TRUE]

Range(s) == {s[i] : i \in 1..Len(s)}

\* errors: NoErr is Go's nil; ExitError carries the exit status
NoErr == [kind |-> "nil", status |-> 0, text |-> <<>>]
Err(kind, status, text) == [kind |-> kind, status |-> status, text |-> text]

ErrLoad(name) == Err("error", 0, <<"modprobe", name, "failed">>)
ErrPfsToSkip == Err("error", 0, <<"mstconfig", "failed">>)
ErrChroot == Err("error", 0, <<"chroot", "failed">>)
ErrSyncBusy == Err("error", 0, <<"device", "busy">>)
ErrSyncNoSpace == Err("error", 0, <<"cannot", "allocate", "vfs">>)
ErrSyncNoMem == Err("error", 0, <<"write", "sriov_numvfs", ":", "cannot", "allocate", "memory">>)
ErrCmdLine == Err("error", 0, <<"read", "/proc/cmdline", "failed">>)
ErrSwitchdev == Err("error", 0, <<"write", "switchdev", "conf", "failed">>)
ErrAtoi == Err("NumError", 0, <<"strconv.Atoi", ":", "invalid", "syntax">>)
ErrExit(st) == Err("ExitError", st, <<"exit", "status">>)
ErrExec == Err("error", 0, <<"exec", ":", "not", "started">>)

\* strings.Contains on an error text, word by word
Contains(text, sub) ==
    \E i \in 0..(Len(text) - Len(sub)) :
        \A j \in 1..Len(sub) : text[i + j] = sub[j]

CannotAllocateMemory == <<"cannot", "allocate", "memory">>

----------------------------------------------------------------------------
(* The parameter-setter script and the parsing of its output *)

Space == {" ", "\t", "\n", "\r"}
Digit == {"0", "1", "2", "3", "4", "5", "6", "7", "8", "9"}

DigitVal(c) ==
    CASE c = "0" -> 0 [] c = "1" -> 1 [] c = "2" -> 2 [] c = "3" -> 3 [] c = "4" -> 4
      [] c = "5" -> 5 [] c = "6" -> 6 [] c = "7" -> 7 [] c = "8" -> 8 [] OTHER -> 9

RECURSIVE TrimLeft(_)
TrimLeft(s) == IF s # <<>> /\ Head(s) \in Space THEN TrimLeft(Tail(s)) ELSE s

RECURSIVE TrimRight(_)
TrimRight(s) ==
    IF s # <<>> /\ s[Len(s)] \in Space THEN TrimRight(SubSeq(s, 1, Len(s) - 1)) ELSE s

\* strings.TrimSpace
TrimSpace(s) == TrimRight(TrimLeft(s))

RECURSIVE DigitsValue(_, _)
DigitsValue(s, acc) ==
    IF s = <<>> THEN acc ELSE DigitsValue(Tail(s), 10 * acc + DigitVal(Head(s)))

\* strconv.Atoi: an optional sign, then one digit or more and nothing else
Atoi(s) ==
    LET signed == s # <<>> /\ Head(s) \in {"+", "-"}
        body == IF signed THEN Tail(s) ELSE s
        okay == body # <<>> /\ \A i \in 1..Len(body) : body[i] \in Digit
        mag == IF okay THEN DigitsValue(body, 0) ELSE 0
    IN  [i |-> IF signed /\ Head(s) = "-" THEN 0 - mag ELSE mag,
         err |-> IF okay THEN NoErr ELSE ErrAtoi]

\* what cmd.Run() of the script can give: run is "exit" (the script ran and exited
\* with status) or "noexec" (the process could not be started)
SetterOutcome(run, status, stdout) == [run |-> run, status |-> status, stdout |-> stdout]

\* cmd.Run(): nil on exit status 0, *exec.ExitError on another status, another error
\* when the process did not start
Run(o) ==
    IF o.run = "noexec" THEN ErrExec
    ELSE IF o.status = 0 THEN NoErr ELSE ErrExit(o.status)

\* isCommandNotFound testing for the status of "cannot execute"
isCommandNotFound_cannotExecute(err) == err.kind = "ExitError" /\ err.status = 126

isCommandNotFound(err) == err.kind = "ExitError" /\ err.status = ExitCommandNotFound

\* trySetKernelParam testing "i >= 0"
trySetKernelParam_nonNegative(o) ==
    LET err == Run(o) IN
    IF err # NoErr
    THEN IF isCommandNotFound(err)
         THEN [update |-> FALSE, err |-> NoErr]
         ELSE [update |-> FALSE, err |-> err]
    ELSE LET a == Atoi(TrimSpace(o.stdout)) IN
         IF a.err = NoErr /\ a.i >= 0
         THEN [update |-> TRUE, err |-> NoErr]
         ELSE [update |-> FALSE, err |-> a.err]

\* trySetKernelParam: (update, err)
trySetKernelParam(o) ==
    LET err == Run(o) IN
    IF err # NoErr
    THEN IF isCommandNotFound(err)
         THEN [update |-> FALSE, err |-> NoErr]
         ELSE [update |-> FALSE, err |-> err]
    ELSE LET a == Atoi(TrimSpace(o.stdout)) IN
         IF a.err = NoErr /\ a.i > 0
         THEN [update |-> TRUE, err |-> NoErr]
         ELSE [update |-> FALSE, err |-> a.err]

----------------------------------------------------------------------------
(* Driver predicates *)

\* generic_plugin.go
needVfioDriver(state) ==
    \E i \in 1..Len(state.Spec.Interfaces) :
        \E g \in 1..Len(state.Spec.Interfaces[i].VfGroups) :
            state.Spec.Interfaces[i].VfGroups[g].DeviceType = DeviceTypeVfioPci

needVirtioVdpaDriver(state) ==
    \E i \in 1..Len(state.Spec.Interfaces) :
        \E g \in 1..Len(state.Spec.Interfaces[i].VfGroups) :
            state.Spec.Interfaces[i].VfGroups[g].VdpaType = VdpaTypeVirtio

\* part_000
needDriverCheckDeviceType(state, driverState) ==
    \E i \in 1..Len(state.Spec.Interfaces) :
        \E g \in 1..Len(state.Spec.Interfaces[i].VfGroups) :
            state.Spec.Interfaces[i].VfGroups[g].DeviceType = driverState.DeviceType

needDriverCheckVdpaType(state, driverState) ==
    \E i \in 1..Len(state.Spec.Interfaces) :
        \E g \in 1..Len(state.Spec.Interfaces[i].VfGroups) :
            state.Spec.Interfaces[i].VfGroups[g].VdpaType = driverState.VdpaType

\* driverState.NeedDriverFunc(state, driverState)
NeedDriverFunc(state, d) ==
    IF DriverCatalog[d].NeedDriverFunc = "needDriverCheckDeviceType"
    THEN needDriverCheckDeviceType(state, DriverCatalog[d])
    ELSE needDriverCheckVdpaType(state, DriverCatalog[d])

----------------------------------------------------------------------------
(* Drain policy.  nu is the set of pairs <<iface, ifaceStatus>> for which the    *)
(* external utils.NeedUpdate answers true.                                       *)

RECURSIVE ScanDesired_noZeroBreak(_, _, _, _, _)
\* the inner loop of needDrainNode without the break on "ifaceStatus.NumVfs == 0"
ScanDesired_noZeroBreak(desired, ifaceStatus, nu, j, configured) ==
    IF j > Len(desired)
    THEN (IF configured THEN "configured" ELSE "unconfigured")
    ELSE IF desired[j].PciAddress = ifaceStatus.PciAddress
         THEN IF <<desired[j], ifaceStatus>> \in nu
              THEN "drain"
              ELSE ScanDesired_noZeroBreak(desired, ifaceStatus, nu, j + 1, TRUE)
         ELSE ScanDesired_noZeroBreak(desired, ifaceStatus, nu, j + 1, configured)

RECURSIVE ScanDesired(_, _, _, _, _)
\* the inner loop of needDrainNode from desired[j] on: "drain" (return true),
\* "configured" or "unconfigured" (the loop ended or broke)
ScanDesired(desired, ifaceStatus, nu, j, configured) ==
    IF j > Len(desired)
    THEN (IF configured THEN "configured" ELSE "unconfigured")
    ELSE IF desired[j].PciAddress = ifaceStatus.PciAddress
         THEN IF ifaceStatus.NumVfs = 0
              THEN "configured"
              ELSE IF <<desired[j], ifaceStatus>> \in nu
                   THEN "drain"
                   ELSE ScanDesired(desired, ifaceStatus, nu, j + 1, TRUE)
         ELSE ScanDesired(desired, ifaceStatus, nu, j + 1, configured)

RECURSIVE ScanCurrent_stopAtConfigured(_, _, _, _)
\* the outer loop of needDrainNode returning false at the first observed interface
\* that is configured and needs no drain
ScanCurrent_stopAtConfigured(desired, current, nu, i) ==
    IF i > Len(current)
    THEN FALSE
    ELSE LET r == ScanDesired(desired, current[i], nu, 1, FALSE) IN
         IF r = "drain"
         THEN TRUE
         ELSE IF r = "unconfigured" /\ current[i].NumVfs > 0
              THEN TRUE
              ELSE IF r = "configured"
                   THEN FALSE
                   ELSE ScanCurrent_stopAtConfigured(desired, current, nu, i + 1)

RECURSIVE ScanCurrent(_, _, _, _)
ScanCurrent(desired, current, nu, i) ==
    IF i > Len(current)
    THEN FALSE
    ELSE LET r == ScanDesired(desired, current[i], nu, 1, FALSE) IN
         IF r = "drain"
         THEN TRUE
         ELSE IF r = "unconfigured" /\ current[i].NumVfs > 0
              THEN TRUE
              ELSE ScanCurrent(desired, current, nu, i + 1)

needDrainNode(desired, current, nu) == ScanCurrent(desired, current, nu, 1)

----------------------------------------------------------------------------
(* The kernel-parameter ledger *)

EmptyFn == [x \in {} |-> 0]

Extend(f, k, v) == [x \in (DOMAIN f) \cup {k} |-> IF x = k THEN v ELSE f[x]]

\* addToDesiredKernelParams without the test for the key: the counter starts again
addToDesiredKernelParams_reset(kp, kparam) == Extend(kp, kparam, 0)

\* AddToDesiredKernelParams (generic_plugin.go), on the map
AddToDesiredKernelParams(kp, kparam) ==
    IF kparam \notin DOMAIN kp THEN Extend(kp, kparam, 0) ELSE kp

\* addToDesiredKernelParams (part_000), on the map
addToDesiredKernelParams(kp, kparam) ==
    IF kparam \notin DOMAIN kp THEN Extend(kp, kparam, 0) ELSE kp

\* the loop body of SetAllDesiredKernelParams without the give-up branch
SetAllDesiredKernelParamsBody_noGiveUp(acc, kparam, cl, out) ==
    IF kparam \in cl
    THEN acc
    ELSE LET r == trySetKernelParam(out[kparam]) IN
         [acc EXCEPT !.kp = [@ EXCEPT ![kparam] = @ + 1],
                     !.needReboot = @ \/ r.update,
                     !.setter = Extend(@, kparam, out[kparam])]

\* One iteration of the loop of SetAllDesiredKernelParams.  acc holds the map, the
\* needReboot local and setter: the outcome of each trySetKernelParam call made
SetAllDesiredKernelParamsBody(acc, kparam, cl, out) ==
    IF kparam \in cl
    THEN acc
    ELSE IF acc.kp[kparam] > GiveUpThreshold
         THEN acc
         ELSE LET r == trySetKernelParam(out[kparam]) IN
              [acc EXCEPT !.kp = [@ EXCEPT ![kparam] = @ + 1],
                          !.needReboot = @ \/ r.update,
                          !.setter = Extend(@, kparam, out[kparam])]

RECURSIVE SetAllDesiredKernelParamsLoop(_, _, _, _)
\* ord: the order in which range yields the keys of the map
SetAllDesiredKernelParamsLoop(acc, ord, cl, out) ==
    IF ord = <<>>
    THEN acc
    ELSE SetAllDesiredKernelParamsLoop(
             SetAllDesiredKernelParamsBody(acc, Head(ord), cl, out), Tail(ord), cl, out)

SetAllDesiredKernelParams(kp, ord, cl, out) ==
    SetAllDesiredKernelParamsLoop(
        [kp |-> kp, needReboot |-> FALSE, err |-> NoErr, setter |-> EmptyFn, done |-> FALSE],
        ord, cl, out)

\* the loop body of syncDesiredKernelParams deleting the entry of a parameter found
\* on the kernel command line
syncDesiredKernelParamsBody_dropWhenSet(acc, kparam, cl, clErr, out) ==
    IF acc.done
    THEN acc
    ELSE IF kparam \in clErr
    THEN [acc EXCEPT !.needReboot = FALSE, !.err = ErrCmdLine, !.done = TRUE]
    ELSE IF kparam \in cl
    THEN [acc EXCEPT !.kp = [x \in (DOMAIN @) \ {kparam} |-> @[x]]]
    ELSE LET r == trySetKernelParam(out[kparam]) IN
         IF r.err # NoErr
         THEN [acc EXCEPT !.needReboot = FALSE, !.err = r.err, !.done = TRUE,
                          !.setter = Extend(@, kparam, out[kparam])]
         ELSE [acc EXCEPT !.kp = [@ EXCEPT ![kparam] = @ + 1],
                          !.needReboot = @ \/ r.update,
                          !.setter = Extend(@, kparam, out[kparam])]

\* One iteration of the loop of syncDesiredKernelParams; done: the function returned.
\* clErr: the parameters for which utils.IsKernelCmdLineParamSet returns an error
syncDesiredKernelParamsBody(acc, kparam, cl, clErr, out) ==
    IF acc.done
    THEN acc
    ELSE IF kparam \in clErr
    THEN [acc EXCEPT !.needReboot = FALSE, !.err = ErrCmdLine, !.done = TRUE]
    ELSE IF kparam \in cl
    THEN acc
    ELSE LET r == trySetKernelParam(out[kparam]) IN
         IF r.err # NoErr
         THEN [acc EXCEPT !.needReboot = FALSE, !.err = r.err, !.done = TRUE,
                          !.setter = Extend(@, kparam, out[kparam])]
         ELSE [acc EXCEPT !.kp = [@ EXCEPT ![kparam] = @ + 1],
                          !.needReboot = @ \/ r.update,
                          !.setter = Extend(@, kparam, out[kparam])]

RECURSIVE syncDesiredKernelParamsLoop(_, _, _, _, _)
syncDesiredKernelParamsLoop(acc, ord, cl, clErr, out) ==
    IF ord = <<>>
    THEN acc
    ELSE syncDesiredKernelParamsLoop(
             syncDesiredKernelParamsBody(acc, Head(ord), cl, clErr, out),
             Tail(ord), cl, clErr, out)

syncDesiredKernelParams(kp, ord, cl, clErr, out) ==
    syncDesiredKernelParamsLoop(
        [kp |-> kp, needReboot |-> FALSE, err |-> NoErr, setter |-> EmptyFn, done |-> FALSE],
        ord, cl, clErr, out)

----------------------------------------------------------------------------
(* The record of a call: pre and p, the object before and after it; what it      *)
(* returned (needDrain, needReboot, err); and the external calls it made:        *)
(* setter maps each parameter trySetKernelParam was called for to the outcome of *)
(* the script; kpCalled: the pass over the ledger ran, with results kpReboot and *)
(* kpErr; swCalled: WriteSwitchdevConfFile was called and returned sw; ext maps  *)
(* each other external call made to the error it returned, under the module name *)
(* for HostManager.LoadKernelModule; exitCalled: the deferred exit() ran.        *)

GetPfsToSkip == "utils.GetPfsToSkip"
Chroot == "utils.Chroot"
SyncNodeState == "utils.SyncNodeState"

Call(op, q) ==
    [op |-> op, pre |-> q, p |-> q,
     needDrain |-> FALSE, needReboot |-> FALSE, err |-> NoErr,
     setter |-> EmptyFn, kpCalled |-> FALSE, kpReboot |-> FALSE, kpErr |-> NoErr,
     swCalled |-> FALSE, sw |-> [update |-> FALSE, err |-> NoErr],
     ext |-> EmptyFn, exitCalled |-> FALSE]

----------------------------------------------------------------------------
(* Reboot policy and OnNodeStateChange, generic_plugin.go *)

\* needRebootNode of generic_plugin.go marking a needed driver loading without the
\* test "!= loaded"
needRebootNode_generic_plugin_remark(c, state, cl, ord, out, sw) ==
    LET q0 == c.p
        q1 == IF needVfioDriver(state)
              THEN [q0 EXCEPT !.LoadVfioDriver = loading,
                              !.DesiredKernelParams =
                                  AddToDesiredKernelParams(
                                      AddToDesiredKernelParams(@, KernelParamIntelIommu),
                                      KernelParamIommuPt)]
              ELSE q0
        q2 == IF needVirtioVdpaDriver(state)
              THEN [q1 EXCEPT !.LoadVirtioVdpaDriver = loading]
              ELSE q1
        r == SetAllDesiredKernelParams(q2.DesiredKernelParams, ord, cl, out)
    IN  IF sw.update
        THEN [c EXCEPT !.p = q2, !.swCalled = TRUE, !.sw = sw, !.needReboot = TRUE]
        ELSE [c EXCEPT !.p = [q2 EXCEPT !.DesiredKernelParams = r.kp],
                       !.swCalled = TRUE, !.sw = sw, !.needReboot = r.needReboot,
                       !.kpCalled = TRUE, !.kpReboot = r.needReboot, !.setter = r.setter]

\* sw: what utils.WriteSwitchdevConfFile returns, [update, err]
needRebootNode_generic_plugin(c, state, cl, ord, out, sw) ==
    LET q0 == c.p
        q1 == IF q0.LoadVfioDriver # loaded /\ needVfioDriver(state)
              THEN [q0 EXCEPT !.LoadVfioDriver = loading,
                              !.DesiredKernelParams =
                                  AddToDesiredKernelParams(
                                      AddToDesiredKernelParams(@, KernelParamIntelIommu),
                                      KernelParamIommuPt)]
              ELSE q0
        q2 == IF q1.LoadVirtioVdpaDriver # loaded /\ needVirtioVdpaDriver(state)
              THEN [q1 EXCEPT !.LoadVirtioVdpaDriver = loading]
              ELSE q1
        r == SetAllDesiredKernelParams(q2.DesiredKernelParams, ord, cl, out)
    IN  IF sw.update
        THEN \* update || ... : the right operand is not evaluated
             [c EXCEPT !.p = q2, !.swCalled = TRUE, !.sw = sw, !.needReboot = TRUE]
        ELSE [c EXCEPT !.p = [q2 EXCEPT !.DesiredKernelParams = r.kp],
                       !.swCalled = TRUE, !.sw = sw, !.needReboot = r.needReboot,
                       !.kpCalled = TRUE, !.kpReboot = r.needReboot, !.setter = r.setter]

OnNodeStateChange_generic_plugin(q, new, nu, cl, ord, out, sw) ==
    LET c0 == Call("OnNodeStateChange", q)
        c1 == [c0 EXCEPT !.p = [q EXCEPT !.DesireState = new],
                         !.needDrain = needDrainNode(new.Spec.Interfaces,
                                                     new.Status.Interfaces, nu)]
        c2 == needRebootNode_generic_plugin(c1, new, cl, ord, out, sw)
    IN  IF c2.needReboot THEN [c2 EXCEPT !.needDrain = TRUE] ELSE c2

----------------------------------------------------------------------------
(* Reboot policy and OnNodeStateChange, part_000 *)

\* addVfioDesiredKernelParam queueing intel_iommu=on only
addVfioDesiredKernelParam_onlyIntelIommu(q, state) ==
    IF ~q.DriverStateMap[Vfio] /\ NeedDriverFunc(state, Vfio)
    THEN [q EXCEPT !.DesiredKernelParams =
                       addToDesiredKernelParams(@, KernelParamIntelIommu)]
    ELSE q

addVfioDesiredKernelParam(q, state) ==
    IF ~q.DriverStateMap[Vfio] /\ NeedDriverFunc(state, Vfio)
    THEN [q EXCEPT !.DesiredKernelParams =
                       addToDesiredKernelParams(
                           addToDesiredKernelParams(@, KernelParamIntelIommu),
                           KernelParamIommuPt)]
    ELSE q

needRebootNode_part_000(c, state, cl, clErr, ord, out, sw) ==
    LET q1 == addVfioDesiredKernelParam(c.p, state)
        r == syncDesiredKernelParams(q1.DesiredKernelParams, ord, cl, clErr, out)
        c1 == [c EXCEPT !.p = [q1 EXCEPT !.DesiredKernelParams = r.kp],
                        !.kpCalled = TRUE, !.kpReboot = r.needReboot, !.kpErr = r.err,
                        !.setter = r.setter]
    IN  IF r.err # NoErr
        THEN [c1 EXCEPT !.needReboot = FALSE, !.err = r.err]
        ELSE IF sw.err # NoErr
             THEN [c1 EXCEPT !.swCalled = TRUE, !.sw = sw, !.needReboot = FALSE, !.err = sw.err]
             ELSE [c1 EXCEPT !.swCalled = TRUE, !.sw = sw,
                             !.needReboot = r.needReboot \/ sw.update]

\* OnNodeStateChange of part_000 without "if needReboot { needDrain = true }"
OnNodeStateChange_part_000_noForce(q, new, nu, cl, clErr, ord, out, sw) ==
    LET c0 == Call("OnNodeStateChange", q)
        c1 == [c0 EXCEPT !.p = [q EXCEPT !.DesireState = new],
                         !.needDrain = needDrainNode(new.Spec.Interfaces,
                                                     new.Status.Interfaces, nu)]
    IN  needRebootNode_part_000(c1, new, cl, clErr, ord, out, sw)

OnNodeStateChange_part_000(q, new, nu, cl, clErr, ord, out, sw) ==
    LET c0 == Call("OnNodeStateChange", q)
        c1 == [c0 EXCEPT !.p = [q EXCEPT !.DesireState = new],
                         !.needDrain = needDrainNode(new.Spec.Interfaces,
                                                     new.Status.Interfaces, nu)]
        c2 == needRebootNode_part_000(c1, new, cl, clErr, ord, out, sw)
    IN  IF c2.needReboot THEN [c2 EXCEPT !.needDrain = TRUE] ELSE c2

----------------------------------------------------------------------------
(* Apply.  loadFail: the module names for which LoadKernelModule fails; pfsErr,  *)
(* chrootErr: utils.GetPfsToSkip and utils.Chroot fail; syncErr: what            *)
(* utils.SyncNodeState returns.                                                  *)

\* the short-circuit comparing the whole node states
NothingToApply_wholeState(q) ==
    /\ ~q.LastState.isNil
    /\ q.LastState = q.DesireState

\* reflect.DeepEqual(p.LastState.Spec.Interfaces, p.DesireState.Spec.Interfaces)
NothingToApply(q) ==
    /\ ~q.LastState.isNil
    /\ q.LastState.Spec.Interfaces = q.DesireState.Spec.Interfaces

\* Apply of generic_plugin.go recording LastState whatever SyncNodeState returns
ApplyTail_generic_plugin_alwaysRecord(c, pfsErr, chrootErr, syncErr) ==
    LET q == c.p
        c1 == [c EXCEPT !.ext = Extend(@, GetPfsToSkip, IF pfsErr THEN ErrPfsToSkip ELSE NoErr)]
        c2 == IF q.RunningOnHost
              THEN c1
              ELSE [c1 EXCEPT !.ext = Extend(@, Chroot, IF chrootErr THEN ErrChroot ELSE NoErr)]
        c3 == IF q.RunningOnHost THEN c2 ELSE [c2 EXCEPT !.exitCalled = TRUE]
        c4 == [c3 EXCEPT !.ext = Extend(@, SyncNodeState, syncErr)]
    IN  IF pfsErr
        THEN [c1 EXCEPT !.err = ErrPfsToSkip]
        ELSE IF ~q.RunningOnHost /\ chrootErr
        THEN [c2 EXCEPT !.err = ErrChroot]
        ELSE [c4 EXCEPT !.err = syncErr, !.p = [q EXCEPT !.LastState = q.DesireState]]

\* Apply of generic_plugin.go from utils.GetPfsToSkip on
ApplyTail_generic_plugin(c, pfsErr, chrootErr, syncErr) ==
    LET q == c.p
        c1 == [c EXCEPT !.ext = Extend(@, GetPfsToSkip, IF pfsErr THEN ErrPfsToSkip ELSE NoErr)]
        c2 == IF q.RunningOnHost
              THEN c1
              ELSE [c1 EXCEPT !.ext = Extend(@, Chroot, IF chrootErr THEN ErrChroot ELSE NoErr)]
        c3 == IF q.RunningOnHost THEN c2 ELSE [c2 EXCEPT !.exitCalled = TRUE]
        c4 == [c3 EXCEPT !.ext = Extend(@, SyncNodeState, syncErr)]
    IN  IF pfsErr
        THEN [c1 EXCEPT !.err = ErrPfsToSkip]
        ELSE IF ~q.RunningOnHost /\ chrootErr
        THEN [c2 EXCEPT !.err = ErrChroot]
        ELSE IF syncErr # NoErr
        THEN [c4 EXCEPT !.err = syncErr]
        ELSE [c4 EXCEPT !.p = [q EXCEPT !.LastState = q.DesireState]]

\* Apply of part_000 from utils.GetPfsToSkip on
ApplyTail_part_000(c, pfsErr, chrootErr, syncErr) ==
    LET q == c.p
        c1 == [c EXCEPT !.ext = Extend(@, GetPfsToSkip, IF pfsErr THEN ErrPfsToSkip ELSE NoErr)]
        c2 == IF q.RunningOnHost
              THEN c1
              ELSE [c1 EXCEPT !.ext = Extend(@, Chroot, IF chrootErr THEN ErrChroot ELSE NoErr)]
        c3 == IF q.RunningOnHost THEN c2 ELSE [c2 EXCEPT !.exitCalled = TRUE]
        c4 == [c3 EXCEPT !.ext = Extend(@, SyncNodeState, syncErr)]
    IN  IF pfsErr
        THEN [c1 EXCEPT !.err = ErrPfsToSkip]
        ELSE IF ~q.RunningOnHost /\ chrootErr
        THEN [c2 EXCEPT !.err = ErrChroot]
        ELSE IF syncErr # NoErr
        THEN IF Contains(syncErr.text, CannotAllocateMemory)
             THEN [c4 EXCEPT !.err = syncErr,
                             !.p = [q EXCEPT !.DesiredKernelParams =
                                        addToDesiredKernelParams(@, KernelParamPciRealloc)]]
             ELSE [c4 EXCEPT !.err = syncErr]
        ELSE [c4 EXCEPT !.p = [q EXCEPT !.LastState = q.DesireState]]

\* HostManager.LoadKernelModule(name)
LoadKernelModule(name, loadFail) == IF name \in loadFail THEN ErrLoad(name) ELSE NoErr

Apply_generic_plugin(q, loadFail, pfsErr, chrootErr, syncErr) ==
    LET c0 == Call("Apply", q)
        doVfio == q.LoadVfioDriver = loading
        errVfio == LoadKernelModule(vfioPciDriver, loadFail)
        c1 == IF doVfio THEN [c0 EXCEPT !.ext = Extend(@, vfioPciDriver, errVfio)] ELSE c0
        c2 == IF doVfio THEN [c1 EXCEPT !.p = [@ EXCEPT !.LoadVfioDriver = loaded]] ELSE c1
        doVirtio == q.LoadVirtioVdpaDriver = loading
        errVirtio == LoadKernelModule(virtioVdpaDriver, loadFail)
        c3 == IF doVirtio THEN [c2 EXCEPT !.ext = Extend(@, virtioVdpaDriver, errVirtio)] ELSE c2
        c4 == IF doVirtio THEN [c3 EXCEPT !.p = [@ EXCEPT !.LoadVirtioVdpaDriver = loaded]]
              ELSE c3
    IN  IF doVfio /\ errVfio # NoErr
        THEN [c1 EXCEPT !.err = errVfio]
        ELSE IF doVirtio /\ errVirtio # NoErr
        THEN [c3 EXCEPT !.err = errVirtio]
        ELSE IF NothingToApply(c4.p)
        THEN c4
        ELSE ApplyTail_generic_plugin(c4, pfsErr, chrootErr, syncErr)

\* the loop body of syncDriverState setting DriverLoaded before the result is known
syncDriverStateBody_markFirst(c, d, loadFail) ==
    LET name == DriverCatalog[d].DriverName
        err == LoadKernelModule(name, loadFail)
    IN  IF c.err # NoErr
        THEN c
        ELSE IF ~c.p.DriverStateMap[d] /\ NeedDriverFunc(c.p.DesireState, d)
        THEN [c EXCEPT !.ext = Extend(@, name, err), !.err = err,
                       !.p = [@ EXCEPT !.DriverStateMap = [@ EXCEPT ![d] = TRUE]]]
        ELSE c

\* One iteration of the loop of syncDriverState over driver id d
syncDriverStateBody(c, d, loadFail) ==
    LET name == DriverCatalog[d].DriverName
        err == LoadKernelModule(name, loadFail)
    IN  IF c.err # NoErr
        THEN c
        ELSE IF ~c.p.DriverStateMap[d] /\ NeedDriverFunc(c.p.DesireState, d)
        THEN IF err # NoErr
             THEN [c EXCEPT !.ext = Extend(@, name, err), !.err = err]
             ELSE [c EXCEPT !.ext = Extend(@, name, err),
                            !.p = [@ EXCEPT !.DriverStateMap = [@ EXCEPT ![d] = TRUE]]]
        ELSE c

RECURSIVE syncDriverState(_, _, _)
\* dord: the order in which range yields the driver ids
syncDriverState(c, dord, loadFail) ==
    IF dord = <<>>
    THEN c
    ELSE syncDriverState(syncDriverStateBody(c, Head(dord), loadFail), Tail(dord), loadFail)

Apply_part_000(q, dord, loadFail, pfsErr, chrootErr, syncErr) ==
    LET c0 == Call("Apply", q)
        c1 == syncDriverState(c0, dord, loadFail)
    IN  IF NothingToApply(q)
        THEN c0
        ELSE IF c1.err # NoErr
        THEN c1
        ELSE ApplyTail_part_000(c1, pfsErr, chrootErr, syncErr)

----------------------------------------------------------------------------
(* The inputs of the calls *)

Iface(pci, numVfs, deviceType, vdpaType) ==
    [PciAddress |-> pci, NumVfs |-> numVfs,
     VfGroups |-> <<[DeviceType |-> deviceType, VdpaType |-> vdpaType]>>]

IfaceExt(pci, numVfs) == [PciAddress |-> pci, NumVfs |-> numVfs]

NodeState(interfaces, observed) ==
    [Spec |-> [Interfaces |-> interfaces], Status |-> [Interfaces |-> observed],
     isNil |-> FALSE]

PciA == "0000:18:00.0"
PciB == "0000:18:00.1"

StateNetDevice ==
    NodeState(<<Iface(PciA, 2, DeviceTypeNetDevice, "")>>, <<IfaceExt(PciA, 2)>>)
StateVfio ==
    NodeState(<<Iface(PciA, 2, DeviceTypeVfioPci, "")>>, <<IfaceExt(PciA, 2)>>)
\* the interfaces of StateVfio, observed before any virtual function exists
StateVfioFresh ==
    NodeState(<<Iface(PciA, 2, DeviceTypeVfioPci, "")>>, <<IfaceExt(PciA, 0)>>)
StateVdpa ==
    NodeState(<<Iface(PciA, 2, DeviceTypeNetDevice, VdpaTypeVirtio),
                Iface(PciB, 1, DeviceTypeNetDevice, VdpaTypeVhost)>>,
              <<IfaceExt(PciA, 0)>>)

\* the pairs utils.NeedUpdate can be asked about
NeedUpdatePairs(state) ==
    {<<d, c>> \in Range(state.Spec.Interfaces) \X Range(state.Status.Interfaces) :
        d.PciAddress = c.PciAddress /\ c.NumVfs # 0}

OutReboot == SetterOutcome("exit", 0, <<"1", "\n">>)
OutNoChange == SetterOutcome("exit", 0, <<"0", "\n">>)
OutGarbage == SetterOutcome("exit", 0, <<"o", "k", "\n">>)
OutNotFound == SetterOutcome("exit", ExitCommandNotFound, <<>>)
OutFail == SetterOutcome("exit", 1, <<>>)

SwitchdevOutcomes ==
    {[update |-> FALSE, err |-> NoErr], [update |-> TRUE, err |-> NoErr],
     [update |-> FALSE, err |-> ErrSwitchdev]}

\* the orders in which range can yield the keys S of a map
Perms(S) ==
    {f \in [1..Cardinality(S) -> S] :
        \A i, j \in 1..Cardinality(S) : i # j => f[i] # f[j]}

RECURSIVE SeqOf(_)
\* the elements of S in some fixed order
SeqOf(S) == IF S = {} THEN <<>> ELSE LET x == CHOOSE y \in S : TRUE IN <<x>> \o SeqOf(S \ {x})

\* Orders in which range can yield the keys of a map: every order of the keys in
\* acting, the keys for which the loop body does something, then the other keys
Orders(keys, acting) == {f \o SeqOf(keys \ acting) : f \in Perms(keys \cap acting)}

\* what the calls of Apply after the driver loads can return: GetPfsToSkip fails,
\* Chroot fails, or SyncNodeState returns syncErr
ApplyOutcomes(syncs) ==
    {[pfsErr |-> TRUE, chrootErr |-> FALSE, syncErr |-> NoErr],
     [pfsErr |-> FALSE, chrootErr |-> TRUE, syncErr |-> NoErr]}
    \cup {[pfsErr |-> FALSE, chrootErr |-> FALSE, syncErr |-> e] : e \in syncs}

\* A scope bounds the inputs of a specification: max bounds the attempt counters,
\* states are the node states given to OnNodeStateChange, cmdlines the kernel command
\* lines, hosts the values of runningOnHost, setter the outcomes of the script, sw those of
\* WriteSwitchdevConfFile,
\* loadFails whether LoadKernelModule can fail, tail the outcomes of the later calls
\* of Apply
WideScope ==
    [max |-> MaxAttempts,
     states |-> {StateNetDevice, StateVfio, StateVfioFresh, StateVdpa},
     cmdlines |-> {{KernelParamIommuPt, KernelParamPciRealloc}, Params},
     hosts |-> {FALSE},
     setter |-> {OutReboot, OutFail},
     sw |-> SwitchdevOutcomes,
     loadFails |-> TRUE,
     tail |-> ApplyOutcomes({NoErr, ErrSyncBusy, ErrSyncNoMem})]

KargsScope ==
    [max |-> MaxAttempts,
     states |-> {StateVfioFresh},
     cmdlines |-> {{KernelParamPciRealloc}, {KernelParamIntelIommu, KernelParamIommuPt}},
     hosts |-> {TRUE},
     setter |-> {OutReboot, OutNoChange, OutGarbage, OutNotFound, OutFail},
     sw |-> SwitchdevOutcomes,
     loadFails |-> FALSE,
     tail |-> ApplyOutcomes({NoErr, ErrSyncNoSpace, ErrSyncNoMem})]

GiveUpScope ==
    [max |-> MaxGiveUpAttempts,
     states |-> {StateVfioFresh},
     cmdlines |-> {{KernelParamPciRealloc}},
     hosts |-> {TRUE},
     setter |-> {OutReboot, OutNoChange, OutFail},
     sw |-> SwitchdevOutcomes,
     loadFails |-> FALSE,
     tail |-> ApplyOutcomes({NoErr})]

\* node states for the drain policy: desired lists with no entry, one entry, two
\* entries of one PCI address and two PCI addresses; observed lists with and without
\* virtual functions, in both orders; every Apply fails, so that LastState stays nil
DrainDesired ==
    {<<>>,
     <<Iface(PciA, 2, DeviceTypeNetDevice, "")>>,
     <<Iface(PciA, 2, DeviceTypeNetDevice, ""), Iface(PciA, 1, DeviceTypeNetDevice, "")>>,
     <<Iface(PciA, 2, DeviceTypeNetDevice, ""), Iface(PciB, 1, DeviceTypeNetDevice, "")>>}

DrainObserved ==
    {<<IfaceExt(PciA, 0)>>, <<IfaceExt(PciA, 2)>>,
     <<IfaceExt(PciA, 0), IfaceExt(PciB, 2)>>, <<IfaceExt(PciB, 2), IfaceExt(PciA, 0)>>,
     <<IfaceExt(PciA, 0), IfaceExt(PciB, 0)>>, <<IfaceExt(PciA, 2), IfaceExt(PciB, 2)>>}

DrainScope ==
    [max |-> MaxAttempts,
     states |-> {NodeState(d, o) : d \in DrainDesired, o \in DrainObserved},
     cmdlines |-> {Params},
     hosts |-> {FALSE},
     setter |-> {OutNoChange},
     sw |-> {[update |-> FALSE, err |-> NoErr], [update |-> TRUE, err |-> NoErr]},
     loadFails |-> FALSE,
     tail |-> ApplyOutcomes({ErrSyncBusy})]

----------------------------------------------------------------------------
(* The state machine *)

NewGenericPlugin_generic_plugin(runningOnHost) ==
    [DesireState |-> Nil, LastState |-> Nil,
     LoadVfioDriver |-> unloaded, LoadVirtioVdpaDriver |-> unloaded,
     DriverStateMap |-> [d \in DriverIds |-> FALSE],
     DesiredKernelParams |-> EmptyFn, RunningOnHost |-> runningOnHost]

NewGenericPlugin_part_000(runningOnHost) ==
    [DesireState |-> Nil, LastState |-> Nil,
     LoadVfioDriver |-> unloaded, LoadVirtioVdpaDriver |-> unloaded,
     DriverStateMap |-> [d \in DriverIds |-> FALSE],
     DesiredKernelParams |-> EmptyFn, RunningOnHost |-> runningOnHost]

InitIn(scope) ==
    /\ impl \in {"generic_plugin", "part_000"}
    /\ cmdline \in scope.cmdlines
    /\ \E runningOnHost \in scope.hosts :
          p = IF impl = "generic_plugin"
              THEN NewGenericPlugin_generic_plugin(runningOnHost)
              ELSE NewGenericPlugin_part_000(runningOnHost)
    /\ last = Call("NewGenericPlugin", p)
    /\ sameSinceOk = FALSE
    /\ sameBefore = FALSE

\* the counters are kept below the scope's bound
Bounded(scope) ==
    \A k \in DOMAIN p.DesiredKernelParams : p.DesiredKernelParams[k] < scope.max

Returned(c) ==
    /\ p' = c.p
    /\ last' = c
    /\ sameSinceOk' = IF c.op = "Apply"
                      THEN c.err = NoErr
                      ELSE sameSinceOk /\ c.p.DesireState.Spec.Interfaces
                                            = c.pre.DesireState.Spec.Interfaces
    /\ sameBefore' = sameSinceOk
    /\ UNCHANGED <<impl, cmdline>>

\* the keys of the ledger when needRebootNode ranges over it
LedgerKeys(new) ==
    IF impl = "generic_plugin"
    THEN IF p.LoadVfioDriver # loaded /\ needVfioDriver(new)
         THEN DOMAIN p.DesiredKernelParams \cup {KernelParamIntelIommu, KernelParamIommuPt}
         ELSE DOMAIN p.DesiredKernelParams
    ELSE DOMAIN addVfioDesiredKernelParam(p, new).DesiredKernelParams

\* the keys for which a pass over the ledger calls the script
Absent(new) == LedgerKeys(new) \ cmdline

\* the outcomes of the script for the keys it can be called for; one value when the
\* call cannot reach the script (reached is false)
ScriptRuns(scope, new, reached) ==
    IF reached
    THEN [Absent(new) -> scope.setter]
    ELSE {[k \in Absent(new) |-> OutFail]}

DoOnNodeStateChange_generic_plugin(scope) ==
    /\ impl = "generic_plugin"
    /\ Bounded(scope)
    /\ \E new \in scope.states :
       \E nu \in SUBSET NeedUpdatePairs(new) :
       \E ord \in Orders(LedgerKeys(new), Absent(new)) :
       \E sw \in scope.sw :
       \E out \in ScriptRuns(scope, new, ~sw.update) :
          Returned(OnNodeStateChange_generic_plugin(p, new, nu, cmdline, ord, out, sw))

\* clErr: the reads of the kernel command line all succeed or all fail in a call
DoOnNodeStateChange_part_000(scope) ==
    /\ impl = "part_000"
    /\ Bounded(scope)
    /\ \E new \in scope.states :
       \E nu \in SUBSET NeedUpdatePairs(new) :
       \E ord \in Orders(LedgerKeys(new), Absent(new)) :
       \E clErr \in {{}, LedgerKeys(new)} :
       \E out \in ScriptRuns(scope, new, clErr = {}) :
       \E sw \in scope.sw :
          Returned(OnNodeStateChange_part_000(p, new, nu, cmdline, clErr, ord, out, sw))

\* the modules Apply of generic_plugin.go asks for
ToLoad_generic_plugin ==
    (IF p.LoadVfioDriver = loading THEN {vfioPciDriver} ELSE {})
    \cup (IF p.LoadVirtioVdpaDriver = loading THEN {virtioVdpaDriver} ELSE {})

\* the drivers syncDriverState asks a module for
ToLoad_part_000 == {d \in DriverIds : ~p.DriverStateMap[d] /\ NeedDriverFunc(p.DesireState, d)}

\* Apply dereferences p.DesireState: it is called after an OnNodeStateChange
DoApply_generic_plugin(scope) ==
    /\ impl = "generic_plugin"
    /\ ~p.DesireState.isNil
    /\ \E loadFail \in IF scope.loadFails THEN SUBSET ToLoad_generic_plugin ELSE {{}} :
       \E t \in scope.tail :
          Returned(Apply_generic_plugin(p, loadFail, t.pfsErr, t.chrootErr, t.syncErr))

DoApply_part_000(scope) ==
    /\ impl = "part_000"
    /\ ~p.DesireState.isNil
    /\ \E dord \in Orders(DriverIds, ToLoad_part_000) :
       \E loadFail \in IF scope.loadFails
                       THEN SUBSET {DriverCatalog[d].DriverName : d \in ToLoad_part_000}
                       ELSE {{}} :
       \E t \in scope.tail :
          Returned(Apply_part_000(p, dord, loadFail, t.pfsErr, t.chrootErr, t.syncErr))

Init == InitIn(WideScope)

Next ==
    \/ DoOnNodeStateChange_generic_plugin(WideScope)
    \/ DoOnNodeStateChange_part_000(WideScope)
    \/ DoApply_generic_plugin(WideScope)
    \/ DoApply_part_000(WideScope)

\* every input of the calls, counters below MaxAttempts
Spec == Init /\ [][Next]_vars

InitKargs == InitIn(KargsScope)

NextKargs ==
    \/ DoOnNodeStateChange_generic_plugin(KargsScope)
    \/ DoOnNodeStateChange_part_000(KargsScope)
    \/ DoApply_generic_plugin(KargsScope)
    \/ DoApply_part_000(KargsScope)

\* the ledger with every outcome of the script and two parameters absent
SpecKargs == InitKargs /\ [][NextKargs]_vars

InitGiveUp == InitIn(GiveUpScope)

NextGiveUp ==
    \/ DoOnNodeStateChange_generic_plugin(GiveUpScope)
    \/ DoOnNodeStateChange_part_000(GiveUpScope)
    \/ DoApply_generic_plugin(GiveUpScope)
    \/ DoApply_part_000(GiveUpScope)

\* the attempt counters up to the give-up threshold and beyond
SpecGiveUp == InitGiveUp /\ [][NextGiveUp]_vars

InitDrain == InitIn(DrainScope)

NextDrain ==
    \/ DoOnNodeStateChange_generic_plugin(DrainScope)
    \/ DoOnNodeStateChange_part_000(DrainScope)
    \/ DoApply_generic_plugin(DrainScope)
    \/ DoApply_part_000(DrainScope)

\* the drain policy over lists of desired and observed interfaces
SpecDrain == InitDrain /\ [][NextDrain]_vars

----------------------------------------------------------------------------
(* Properties.  They read the latest call from last: last.pre is the object    *)
(* when the call began, last.p the object it left.                             *)

IsGenericPlugin == impl = "generic_plugin"
IsPart000 == impl = "part_000"
IsOnNodeStateChange == last.op = "OnNodeStateChange"
IsApply == last.op = "Apply"

\* the attempt counter of k before and after the latest call (0: not tracked)
PreAttempts(k) ==
    IF k \in DOMAIN last.pre.DesiredKernelParams THEN last.pre.DesiredKernelParams[k] ELSE 0
Attempts(k) ==
    IF k \in DOMAIN last.p.DesiredKernelParams THEN last.p.DesiredKernelParams[k] ELSE 0

\* the script was called for k in the latest call
SetterCalled(k) == k \in DOMAIN last.setter

\* the latest call made the external call x / x returned an error
Called(x) == x \in DOMAIN last.ext
Failed(x) == x \in DOMAIN last.ext /\ last.ext[x] # NoErr

ModuleNames == {vfioPciDriver, virtioVdpaDriver, vhostVdpaDriver}

DriverOf(name) == CHOOSE d \in DriverIds : DriverCatalog[d].DriverName = name

\* the load status of the driver of module name in object q; part_000 keeps a flag
ModuleStatus(q, name) ==
    IF IsGenericPlugin
    THEN IF name = vfioPciDriver THEN q.LoadVfioDriver
         ELSE IF name = virtioVdpaDriver THEN q.LoadVirtioVdpaDriver
         ELSE unloaded
    ELSE IF q.DriverStateMap[DriverOf(name)] THEN loaded ELSE unloaded

C2_SecondApplyDoesNotSync ==
    (IsApply /\ sameBefore) => (~Called(SyncNodeState) /\ last.err = NoErr)

C2_Witness ==
    /\ IsApply /\ sameBefore
    /\ last.pre.DesireState # last.pre.LastState

\* C3 as stated: an Apply called with LastState set and equal to DesireState on
\* Spec.Interfaces makes no external call, changes nothing in the object and
\* returns nil, also when a driver is in status loading.
C3_ShortCircuitDoesNoWork ==
    (IsApply /\ NothingToApply(last.pre))
        => (DOMAIN last.ext = {} /\ ~last.exitCalled /\ last.p = last.pre
            /\ last.err = NoErr)

\* C4: no call moves a driver's load status back, and no call loads the module of
\* a driver that was loaded when the call began.
C4_LoadStatusMonotone ==
    /\ last.p.LoadVfioDriver >= last.pre.LoadVfioDriver
    /\ last.p.LoadVirtioVdpaDriver >= last.pre.LoadVirtioVdpaDriver
    /\ \A d \in DriverIds : last.pre.DriverStateMap[d] => last.p.DriverStateMap[d]
    /\ \A name \in ModuleNames :
          ModuleStatus(last.pre, name) = loaded
              => (~Called(name) /\ ModuleStatus(last.p, name) = loaded)

C4_Witness ==
    /\ IsOnNodeStateChange
    /\ ModuleStatus(last.pre, vfioPciDriver) = loaded
    /\ needVfioDriver(last.p.DesireState)

\* C5: when LoadKernelModule fails in Apply, Apply returns that error, the status
\* of the failing driver is as before the call and not loaded, the next Apply asks
\* for the module again, utils.SyncNodeState is not called and LastState is as
\* before the call.
C5_LoadFailureAborts ==
    IsApply =>
        \A name \in ModuleNames :
            Failed(name) =>
                /\ last.err = last.ext[name]
                /\ ModuleStatus(last.p, name) = ModuleStatus(last.pre, name)
                /\ ModuleStatus(last.p, name) # loaded
                /\ IF IsGenericPlugin
                   THEN name \in ToLoad_generic_plugin
                   ELSE DriverOf(name) \in ToLoad_part_000 /\ ~NothingToApply(last.p)
                /\ ~Called(SyncNodeState)
                /\ last.p.LastState = last.pre.LastState

C5_Witness == IsApply /\ \E name \in ModuleNames : Failed(name)

\* C6: LastState changes only in an Apply in which utils.SyncNodeState returned
\* nil, and then to the DesireState of that Apply; when GetPfsToSkip, Chroot or
\* SyncNodeState fails, Apply returns that error, LastState is as before and the
\* short-circuit of the next Apply does not hold; an Apply that does not take the
\* short-circuit and in which no earlier call fails calls utils.SyncNodeState.
C6_LastStateOnlyAfterSync ==
    /\ last.p.LastState # last.pre.LastState
          => /\ IsApply /\ Called(SyncNodeState) /\ ~Failed(SyncNodeState)
             /\ last.err = NoErr
             /\ last.p.LastState = last.pre.DesireState
    /\ IsApply =>
          /\ \A x \in {GetPfsToSkip, Chroot, SyncNodeState} :
                Failed(x) => /\ last.err = last.ext[x]
                             /\ last.p.LastState = last.pre.LastState
                             /\ ~NothingToApply(last.p)
          /\ (Called(SyncNodeState) /\ ~Failed(SyncNodeState))
                => last.p.LastState = last.pre.DesireState
          /\ (~NothingToApply(last.pre)
              /\ \A x \in DOMAIN last.ext \ {SyncNodeState} : last.ext[x] = NoErr)
                => Called(SyncNodeState)

C6_Witness ==
    /\ IsApply /\ Failed(SyncNodeState)
    /\ ~last.pre.LastState.isNil

\* C7: every OnNodeStateChange that returns needReboot true returns needDrain true.
C7_RebootImpliesDrain ==
    IsOnNodeStateChange => (last.needReboot => last.needDrain)

\* a reboot is needed and the drain policy alone asks for no drain
C7_Witness ==
    /\ IsOnNodeStateChange /\ last.needReboot
    /\ ~needDrainNode(last.p.DesireState.Spec.Interfaces,
                      last.p.DesireState.Status.Interfaces,
                      NeedUpdatePairs(last.p.DesireState))

\* the object as NewGenericPlugin leaves it
Fresh(q) ==
    /\ q.DesireState.isNil /\ q.LastState.isNil
    /\ DOMAIN q.DesiredKernelParams = {}
    /\ \A name \in ModuleNames : ModuleStatus(q, name) = unloaded

AddLaw(kp, k, r) ==
    IF k \in DOMAIN kp
    THEN r = kp
    ELSE /\ DOMAIN r = DOMAIN kp \cup {k}
         /\ r[k] = 0
         /\ \A x \in DOMAIN kp : r[x] = kp[x]

\* C9: on every ledger reached and for every parameter, adding a tracked parameter
\* changes nothing and adding an untracked one adds it with counter 0, in both
\* revisions; and no call lowers the counter of a parameter it found tracked.
C9_AddIsIdempotent ==
    /\ \A k \in Params :
          /\ AddLaw(p.DesiredKernelParams, k,
                    AddToDesiredKernelParams(p.DesiredKernelParams, k))
          /\ AddLaw(p.DesiredKernelParams, k,
                    addToDesiredKernelParams(p.DesiredKernelParams, k))
          /\ addToDesiredKernelParams(addToDesiredKernelParams(p.DesiredKernelParams, k), k)
                = addToDesiredKernelParams(p.DesiredKernelParams, k)
    /\ \A k \in DOMAIN last.pre.DesiredKernelParams :
          k \in DOMAIN last.p.DesiredKernelParams /\ Attempts(k) >= PreAttempts(k)

\* a call that adds again parameters whose counters are above 0
C9_Witness ==
    /\ IsOnNodeStateChange
    /\ needVfioDriver(last.p.DesireState)
    /\ ModuleStatus(last.pre, vfioPciDriver) # loaded
    /\ PreAttempts(KernelParamIntelIommu) > 0

ExitedNotFound(o) == o.run = "exit" /\ o.status = ExitCommandNotFound

\* C10: when the script exits with status 127 for a parameter, the counter of the
\* parameter grows by one, an error of the pass is the error of another parameter
\* (or of the read of the command line), a reboot signal of the pass comes from
\* another parameter, and a pass that called the script for this parameter only
\* returns (false, nil).
C10_NotFoundIsTolerated ==
    IsOnNodeStateChange =>
        \A k \in DOMAIN last.setter :
            ExitedNotFound(last.setter[k]) =>
                /\ Attempts(k) = PreAttempts(k) + 1
                /\ last.kpErr # NoErr =>
                      \/ last.kpErr = ErrCmdLine
                      \/ \E j \in DOMAIN last.setter \ {k} :
                            last.kpErr = trySetKernelParam(last.setter[j]).err
                /\ last.kpReboot =>
                      \E j \in DOMAIN last.setter \ {k} :
                          trySetKernelParam(last.setter[j]).update
                /\ DOMAIN last.setter = {k} => (~last.kpReboot /\ last.kpErr = NoErr)

C10_Witness ==
    /\ IsOnNodeStateChange
    /\ \E k \in DOMAIN last.setter :
          ExitedNotFound(last.setter[k]) /\ DOMAIN last.setter = {k}

\* the script exited 0 and wrote a positive base-10 integer
PositiveAnswer(o) ==
    /\ o.run = "exit" /\ o.status = 0
    /\ LET a == Atoi(TrimSpace(o.stdout)) IN a.err = NoErr /\ a.i > 0

\* the call of trySetKernelParam with outcome o returns an error
SetterFailed(o) == trySetKernelParam(o).err # NoErr

\* the tracked parameters absent from the kernel command line when the pass ran
TrackedAbsent == DOMAIN last.p.DesiredKernelParams \ cmdline

\* C11: in a pass over the ledger in which no call of the setter returns an error
\* (and no read of the command line fails), the pass returns true exactly when the
\* setter was called for a parameter and exited 0 with a positive integer on stdout;
\* the setter is called for tracked absent parameters only, so a pass in which every
\* parameter is present, given up or answered with a non-positive number returns
\* false.
C11_RebootIffPositiveAnswer ==
    (IsOnNodeStateChange /\ last.kpCalled /\ last.kpErr = NoErr
     /\ \A k \in DOMAIN last.setter : ~SetterFailed(last.setter[k]))
        => /\ last.kpReboot <=> \E k \in DOMAIN last.setter : PositiveAnswer(last.setter[k])
           /\ DOMAIN last.setter \subseteq TrackedAbsent

\* a pass that returns true while another parameter got the answer 0
C11_Witness ==
    /\ IsOnNodeStateChange /\ last.kpCalled /\ last.kpReboot
    /\ \E k \in DOMAIN last.setter : last.setter[k] = OutNoChange

\* C12 as stated: when a call of the setter returns an error (any failure of the
\* script but exit status 127), the pass returns that error and calls the setter for
\* no further parameter, needRebootNode does not call WriteSwitchdevConfFile, and
\* OnNodeStateChange returns that error.
C12_SetterFailureAborts ==
    IsOnNodeStateChange =>
        \A k \in DOMAIN last.setter :
            (Run(last.setter[k]) # NoErr /\ ~ExitedNotFound(last.setter[k])) =>
                /\ last.kpErr = Run(last.setter[k])
                /\ last.err = Run(last.setter[k])
                /\ ~last.swCalled
                /\ \A j \in DOMAIN last.setter \ {k} : ~SetterFailed(last.setter[j])

\* C13 as stated: when WriteSwitchdevConfFile returns an error, OnNodeStateChange
\* returns a nil error and needReboot is the result of the pass over the ledger
\* alone.
C13_SwitchdevErrorTolerated ==
    (IsOnNodeStateChange /\ last.swCalled /\ last.sw.err # NoErr) =>
        /\ last.err = NoErr
        /\ last.kpCalled
        /\ last.needReboot = last.kpReboot

\* every pair of a desired and an observed interface with one PCI address, the
\* observed count 0 included: the answers utils.NeedUpdate could give range over the
\* subsets of these
MatchingPairs(state) ==
    {<<d, c>> \in Range(state.Spec.Interfaces) \X Range(state.Status.Interfaces) :
        d.PciAddress = c.PciAddress}

HasVfs(c) == c.NumVfs # 0

\* C14: for the node state of every OnNodeStateChange and whatever utils.NeedUpdate
\* would answer, needDrainNode gives the same result with the observed interfaces of
\* count 0 left out, and false when every observed interface has count 0; an
\* OnNodeStateChange whose observed interfaces all have count 0 returns needDrain
\* only when it returns needReboot.
C14_ZeroVfsNeverDrains ==
    IsOnNodeStateChange =>
        LET st == last.p.DesireState
            desired == st.Spec.Interfaces
            current == st.Status.Interfaces
            withVfs == SelectSeq(current, HasVfs)
        IN  /\ \A nu \in SUBSET MatchingPairs(st) :
                  /\ needDrainNode(desired, current, nu) = needDrainNode(desired, withVfs, nu)
                  /\ withVfs = <<>> => ~needDrainNode(desired, current, nu)
            /\ (withVfs = <<>> /\ ~last.needReboot) => ~last.needDrain

\* observed count 0 for an interface with two desired entries, no reboot needed
C14_Witness ==
    /\ IsOnNodeStateChange /\ ~last.needReboot /\ ~last.needDrain
    /\ last.p.DesireState.Status.Interfaces = <<IfaceExt(PciA, 0), IfaceExt(PciB, 0)>>
    /\ Len(last.p.DesireState.Spec.Interfaces) = 2

\* the observed interface c has virtual functions and no desired entry
Unconfigured(st, c) ==
    /\ c.NumVfs > 0
    /\ \A d \in Range(st.Spec.Interfaces) : d.PciAddress # c.PciAddress

Observed(st, d) == \E c \in Range(st.Status.Interfaces) : c.PciAddress = d.PciAddress

\* C15: for the node state of every OnNodeStateChange and whatever utils.NeedUpdate
\* answers, needDrainNode is true when some observed interface, at any position, has
\* virtual functions and no desired entry, and gives the same result with the desired
\* entries that are not observed left out; OnNodeStateChange then returns needDrain.
C15_UnconfiguredDrains ==
    IsOnNodeStateChange =>
        LET st == last.p.DesireState
            desired == st.Spec.Interfaces
            current == st.Status.Interfaces
            IsObserved(d) == Observed(st, d)
        IN  /\ \A nu \in SUBSET MatchingPairs(st) :
                  /\ (\E c \in Range(current) : Unconfigured(st, c))
                        => needDrainNode(desired, current, nu)
                  /\ needDrainNode(desired, current, nu)
                        = needDrainNode(SelectSeq(desired, IsObserved), current, nu)
            /\ (\E c \in Range(current) : Unconfigured(st, c)) => last.needDrain

\* the unconfigured interface is the last observed one, after a configured one
C15_Witness ==
    /\ IsOnNodeStateChange /\ ~last.needReboot /\ last.needDrain
    /\ last.p.DesireState.Status.Interfaces = <<IfaceExt(PciA, 2), IfaceExt(PciB, 2)>>
    /\ last.p.DesireState.Spec.Interfaces = <<Iface(PciA, 2, DeviceTypeNetDevice, "")>>

\* C16 as stated: when utils.SyncNodeState fails in Apply, Apply returns that error
\* and LastState is as before; when the text of the error contains "cannot allocate
\* memory", pci=realloc is tracked after the call (with counter 0 if it was not
\* tracked, the ledger unchanged if it was); otherwise the ledger is unchanged.
C16_NoMemoryQueuesPciRealloc ==
    (IsApply /\ Failed(SyncNodeState)) =>
        /\ last.err = last.ext[SyncNodeState]
        /\ last.p.LastState = last.pre.LastState
        /\ IF Contains(last.err.text, CannotAllocateMemory)
           THEN AddLaw(last.pre.DesiredKernelParams, KernelParamPciRealloc,
                       last.p.DesiredKernelParams)
           ELSE last.p.DesiredKernelParams = last.pre.DesiredKernelParams

\* the script exited 0 and its trimmed stdout is not a base-10 integer
Unparsable(o) ==
    /\ o.run = "exit" /\ o.status = 0
    /\ Atoi(TrimSpace(o.stdout)).err # NoErr

\* C17 as stated: when the script exits 0 with a stdout that is no integer,
\* trySetKernelParam returns (false, nil), the pass does not abort and
\* OnNodeStateChange returns no error.
C17_ParseFailureIsTolerated ==
    IsOnNodeStateChange =>
        \A k \in DOMAIN last.setter :
            Unparsable(last.setter[k]) =>
                /\ trySetKernelParam(last.setter[k]) = [update |-> FALSE, err |-> NoErr]
                /\ last.kpErr = NoErr
                /\ last.err = NoErr

\* C18 as stated: in every OnNodeStateChange in which WriteSwitchdevConfFile is called
\* and returns no error, "changed" included, the pass over the ledger runs: each
\* tracked parameter absent from the kernel command line and not past the give-up
\* threshold gets a call of the setter and one more attempt, and needReboot is the OR of
\* the result of the pass and of the writer.
C18_LedgerPassAlwaysRuns ==
    (IsOnNodeStateChange /\ last.swCalled /\ last.sw.err = NoErr) =>
        /\ last.kpCalled
        /\ \A k \in TrackedAbsent :
              PreAttempts(k) <= GiveUpThreshold
                  => (SetterCalled(k) /\ Attempts(k) = PreAttempts(k) + 1)
        /\ last.needReboot = (last.kpReboot \/ last.sw.update)

\* C19 as stated: whatever the outcome of the script, the attempt counter of every
\* parameter the setter was called for grows by exactly one in that pass.
C19_AttemptCountedWhateverOutcome ==
    IsOnNodeStateChange =>
        \A k \in DOMAIN last.setter : Attempts(k) = PreAttempts(k) + 1

\* C20: in every call, each parameter tracked before the call is tracked after it
\* with the same counter or one more, and each parameter tracked only after it is one
\* the plugin queues, with counter 0 or 1; a counter is one more than before (0 if new)
\* only in an OnNodeStateChange that called the setter for the parameter, which
\* happens only for parameters absent from the kernel command line; Apply changes no
\* counter.
C20_LedgerOnlyGrows ==
    /\ DOMAIN last.pre.DesiredKernelParams \subseteq DOMAIN last.p.DesiredKernelParams
    /\ DOMAIN last.p.DesiredKernelParams \subseteq Params
    /\ \A k \in DOMAIN last.p.DesiredKernelParams :
          /\ Attempts(k) \in {PreAttempts(k), PreAttempts(k) + 1}
          /\ Attempts(k) # PreAttempts(k) => (IsOnNodeStateChange /\ SetterCalled(k))
          /\ k \in cmdline => (~SetterCalled(k) /\ Attempts(k) = PreAttempts(k))
    /\ DOMAIN last.setter \subseteq TrackedAbsent

\* a pass with a tracked parameter that is on the command line and another that is not
C20_Witness ==
    /\ IsOnNodeStateChange
    /\ DOMAIN last.p.DesiredKernelParams \cap cmdline # {}
    /\ \E k \in DOMAIN last.setter : Attempts(k) = PreAttempts(k) + 1

\* C21 as stated: after every Apply that returns nil, the short-circuit included,
\* each driver of the catalog (vfio_pci, virtio_vdpa, vhost_vdpa) whose predicate
\* holds of the current DesireState is loaded.
C21_NeededDriversLoadedAfterApply ==
    (IsApply /\ last.err = NoErr) =>
        \A d \in DriverIds :
            NeedDriverFunc(last.p.DesireState, d)
                => ModuleStatus(last.p, DriverCatalog[d].DriverName) = loaded

\* C22 as stated: Apply calls LoadKernelModule for a driver only if the driver's
\* predicate holds of the DesireState of that Apply.
C22_LoadsOnlyWhatIsNeeded ==
    IsApply =>
        \A name \in ModuleNames :
            Called(name) => NeedDriverFunc(last.pre.DesireState, DriverOf(name))

====
